---- MODULE Spec2Model ----
(***************************************************************************)
(* PanicLabSim: the card ring (card.py), the ring topology builder, the    *)
(* bounded traversal and the Monte Carlo driver (simulator.py).            *)
(*                                                                         *)
(* Cards are identified by their 0-based position in the card list, as     *)
(* the code identifies them by object identity; neighbor relations and     *)
(* the points mapping are functions over those positions.                  *)
(***************************************************************************)
EXTENDS Integers, Sequences, FiniteSets, TLC

VARIABLES
    cards,                      \* the ordered card list handed over by the parser
    experiments,                \* simulate's experiment count
    pc,                         \* position of the program
    error,                      \* the exception raised, "" when none
    index,                      \* configure_neighbors: loop index of the base wiring
    position,                   \* _link_vents: loop position within vent_indices
    walkIndex,                  \* _walk_to_non_vent: the local index
    clk_neighbor,               \* _link_vents: result of the clockwise walk
    clk_wise_neighbor,          \* Card._clk_wise_neighbor of every card
    counter_clk_wise_neighbor,  \* Card._counter_clk_wise_neighbor of every card
    setCalls,                   \* number of set_neighbors calls received by every card
    points,                     \* simulate: the card -> count mapping
    trial,                      \* simulate: number of trials completed
    configuration,              \* the traveling Configuration of the current trial
    start_lab,                  \* the entry Lab card of the current trial
    direction,                  \* the direction of the current trial
    current_card,               \* run_experiment: the card being visited
    step,                       \* run_experiment: number of is_matched calls so far
    matched_card,               \* run_experiment's return value
    draws,                      \* the rng.choice calls made so far, in order
    dropped,                    \* number of run_experiment calls that returned None
    evolve_args,                \* the axes passed to Configuration.evolve
    evolve_origin,              \* the Configuration before the first evolve call (of a trial)
    evolve_calls                \* number of evolve calls made

vars == <<cards, experiments, pc, error, index, position, walkIndex, clk_neighbor,
          clk_wise_neighbor, counter_clk_wise_neighbor, setCalls, points, trial,
          configuration, start_lab, direction, current_card, step, matched_card,
          draws, dropped, evolve_args, evolve_origin, evolve_calls>>

topoVars == <<index, position, walkIndex, clk_neighbor, clk_wise_neighbor,
              counter_clk_wise_neighbor, setCalls>>

simVars == <<points, trial, configuration, start_lab, direction, current_card,
             step, matched_card, draws, dropped>>

evolveVars == <<evolve_args, evolve_origin, evolve_calls>>

-----------------------------------------------------------------------------
(* Bounds *)

MaxCards == 3

MaxRing == 4

MaxExperiments == 2

MaxEvolveCalls == 4

-----------------------------------------------------------------------------
(* card.py: enumerations, Configuration, the four card kinds *)

None == -1

AmoebaColor == <<"RED", "BLUE">>

Pattern == <<"STRIPED", "DOTTY">>

Eye == <<"SINGLE", "DOUBLE">>

Direction == <<"CLK_WISE", "COUNTER_CLK_WISE">>

Members(seq) == {seq[k] : k \in 1..Len(seq)}

MemberIndex(members, member) == CHOOSE k \in 0..(Len(members) - 1) : members[k + 1] = member

RotateNoWrap(members, member) ==
    LET next == MemberIndex(members, member) + 1
    IN members[(IF next < Len(members) THEN next ELSE Len(members) - 1) + 1]

rotate_enum_value(members, member) ==
    members[((MemberIndex(members, member) + 1) % Len(members)) + 1]

Configuration(color, pattern, eye) == [color |-> color, pattern |-> pattern, eye |-> eye]

Configurations ==
    {Configuration(c, p, e) : c \in Members(AmoebaColor), p \in Members(Pattern), e \in Members(Eye)}

EvolveArgs == [evolve_color : BOOLEAN, evolve_pattern : BOOLEAN, evolve_eye : BOOLEAN]

evolve(self, args) ==
    [color   |-> IF args.evolve_color THEN rotate_enum_value(AmoebaColor, self.color) ELSE self.color,
     pattern |-> IF args.evolve_pattern THEN rotate_enum_value(Pattern, self.pattern) ELSE self.pattern,
     eye     |-> IF args.evolve_eye THEN rotate_enum_value(Eye, self.eye) ELSE self.eye]

NoConfiguration == Configuration("RED", "STRIPED", "SINGLE")

NoArgs == [evolve_color |-> FALSE, evolve_pattern |-> FALSE, evolve_eye |-> FALSE]

LabCard == [kind |-> "Lab", configuration |-> NoConfiguration, evolve |-> NoArgs]

VentCard == [kind |-> "Vent", configuration |-> NoConfiguration, evolve |-> NoArgs]

AmoebaCard(target) == [kind |-> "Amoeba", configuration |-> target, evolve |-> NoArgs]

EvolutionCard(args) == [kind |-> "Evolution", configuration |-> NoConfiguration, evolve |-> args]

IsVent(card) == card.kind = "Vent"

IsLab(card) == card.kind = "Lab"

LabMatchesAnything(card, config) == card.kind \in {"Lab", "Amoeba"}

is_matched(card, config) ==
    CASE card.kind = "Lab" -> FALSE
      [] card.kind = "Vent" -> FALSE
      [] card.kind = "Evolution" -> FALSE
      [] card.kind = "Amoeba" -> card.configuration = config

VisitWithoutEffect(card, config) == config

visit_effect(card, config) ==
    IF card.kind = "Evolution" THEN evolve(config, card.evolve) ELSE config

get_next(card, dir) ==
    IF dir = "CLK_WISE" THEN clk_wise_neighbor[card] ELSE counter_clk_wise_neighbor[card]

-----------------------------------------------------------------------------
(* The card lists explored *)

AmoebaTargets == {Configuration("BLUE", "DOTTY", "SINGLE")}

EvolveSelections ==
    {[evolve_color |-> TRUE, evolve_pattern |-> TRUE, evolve_eye |-> FALSE]}

CardPool ==
    {LabCard, VentCard} \cup {AmoebaCard(t) : t \in AmoebaTargets}
        \cup {EvolutionCard(a) : a \in EvolveSelections}

CardLists == UNION {[1..n -> CardPool] : n \in 0..MaxCards}

RingLists == UNION {[1..n -> CardPool] : n \in 0..MaxRing}

NumCards == Len(cards)

Cards == 0..(NumCards - 1)

CardAt(i) == cards[i + 1]

-----------------------------------------------------------------------------
(* Initial state: the card list is parsed, nothing is wired, nothing has run *)

TopoInit ==
    /\ index = 0
    /\ position = 0
    /\ walkIndex = None
    /\ clk_neighbor = None
    /\ clk_wise_neighbor = [i \in Cards |-> None]
    /\ counter_clk_wise_neighbor = [i \in Cards |-> None]
    /\ setCalls = [i \in Cards |-> 0]

SimInit ==
    /\ points = << >>
    /\ trial = 0
    /\ start_lab = None
    /\ direction = "CLK_WISE"
    /\ current_card = None
    /\ step = 0
    /\ matched_card = None
    /\ draws = << >>
    /\ dropped = 0

NoEvolve ==
    /\ evolve_args = NoArgs
    /\ evolve_origin = NoConfiguration
    /\ evolve_calls = 0

Init ==
    /\ cards \in CardLists
    /\ experiments \in 0..MaxExperiments
    /\ pc = "configure"
    /\ error = ""
    /\ TopoInit
    /\ SimInit
    /\ configuration = NoConfiguration
    /\ NoEvolve

-----------------------------------------------------------------------------
(* simulator.py: configure_neighbors, _link_vents, _walk_to_non_vent *)

RECURSIVE VentIndicesFrom(_)
VentIndicesFrom(i) ==
    IF i >= NumCards THEN << >>
    ELSE IF IsVent(CardAt(i)) THEN <<i>> \o VentIndicesFrom(i + 1)
    ELSE VentIndicesFrom(i + 1)

vent_indices == VentIndicesFrom(0)

NoReroutingNever(vents) == Len(vents) < 1

NoRerouting(vents) == Len(vents) <= 1

next_vent_idx == vent_indices[((position + 1) % Len(vent_indices)) + 1]

prev_vent_idx == vent_indices[((position - 1) % Len(vent_indices)) + 1]

BaseCounterWrong(i) == (i + 1) % NumCards

BaseClk(i) == (i + 1) % NumCards

BaseCounter(i) == (i - 1) % NumCards

ClkWalkStartOwnVent(next) == ((vent_indices[position + 1] + 1) % NumCards) % NumCards

ClkWalkStart(next) == ((next + 1) % NumCards) % NumCards

CounterWalkStart(prev) == ((prev - 1) % NumCards) % NumCards

set_neighbors(card, clk, counter) ==
    /\ clk_wise_neighbor' = [clk_wise_neighbor EXCEPT ![card] = clk]
    /\ counter_clk_wise_neighbor' = [counter_clk_wise_neighbor EXCEPT ![card] = counter]
    /\ setCalls' = [setCalls EXCEPT ![card] = @ + 1]

ConfigureNeighbors ==
    /\ pc = "configure"
    /\ pc' = IF NumCards = 0 THEN "configured" ELSE "base"
    /\ UNCHANGED <<cards, experiments, error, topoVars, simVars, evolveVars>>

BaseWire ==
    /\ pc = "base"
    /\ index < NumCards
    /\ set_neighbors(index, BaseClk(index), BaseCounter(index))
    /\ index' = index + 1
    /\ UNCHANGED <<cards, experiments, pc, error, position, walkIndex, clk_neighbor,
                   simVars, evolveVars>>

LinkVents ==
    /\ pc = "base"
    /\ index = NumCards
    /\ pc' = IF NoRerouting(vent_indices) THEN "configured" ELSE "link"
    /\ index' = 0
    /\ UNCHANGED <<cards, experiments, error, position, walkIndex, clk_neighbor,
                   clk_wise_neighbor, counter_clk_wise_neighbor, setCalls,
                   simVars, evolveVars>>

LinkLoop ==
    /\ pc = "link"
    /\ IF position < Len(vent_indices)
       THEN /\ walkIndex' = ClkWalkStart(next_vent_idx)
            /\ pc' = "walk_clk"
            /\ UNCHANGED position
       ELSE /\ pc' = "configured"
            /\ position' = 0
            /\ UNCHANGED walkIndex
    /\ UNCHANGED <<cards, experiments, error, index, clk_neighbor, clk_wise_neighbor,
                   counter_clk_wise_neighbor, setCalls, simVars, evolveVars>>

WalkClockwise ==
    /\ pc = "walk_clk"
    /\ IF IsVent(CardAt(walkIndex))
       THEN /\ walkIndex' = (walkIndex + 1) % NumCards
            /\ UNCHANGED <<pc, clk_neighbor>>
       ELSE /\ clk_neighbor' = walkIndex
            /\ walkIndex' = CounterWalkStart(prev_vent_idx)
            /\ pc' = "walk_counter"
    /\ UNCHANGED <<cards, experiments, error, index, position, clk_wise_neighbor,
                   counter_clk_wise_neighbor, setCalls, simVars, evolveVars>>

WalkCounterClockwise ==
    /\ pc = "walk_counter"
    /\ IF IsVent(CardAt(walkIndex))
       THEN /\ walkIndex' = (walkIndex - 1) % NumCards
            /\ UNCHANGED <<pc, position, clk_neighbor, clk_wise_neighbor,
                           counter_clk_wise_neighbor, setCalls>>
       ELSE /\ set_neighbors(vent_indices[position + 1], clk_neighbor, walkIndex)
            /\ position' = position + 1
            /\ walkIndex' = None
            /\ clk_neighbor' = None
            /\ pc' = "link"
    /\ UNCHANGED <<cards, experiments, error, index, simVars, evolveVars>>

TopoNext ==
    \/ ConfigureNeighbors
    \/ BaseWire
    \/ LinkVents
    \/ LinkLoop
    \/ WalkClockwise
    \/ WalkCounterClockwise

-----------------------------------------------------------------------------
(* simulator.py: run_experiment and simulate *)

MAX_STEPS_PER_RUN == 100

RECURSIVE LabCardsFrom(_)
LabCardsFrom(i) ==
    IF i >= NumCards THEN << >>
    ELSE IF IsLab(CardAt(i)) THEN <<i>> \o LabCardsFrom(i + 1)
    ELSE LabCardsFrom(i + 1)

lab_cards == LabCardsFrom(0)

NoEntryPointsIfEmptyRing == NumCards = 0

NoEntryPoints == Len(lab_cards) = 0

InRangeOffByOne(s) == s <= MAX_STEPS_PER_RUN

InRange(s) == s < MAX_STEPS_PER_RUN

TallyInverted(card) == card = None

Tally(card) == card # None

Simulate ==
    /\ pc = "configured"
    /\ IF NoEntryPoints
       THEN /\ pc' = "raised"
            /\ error' = "No lab cards available to start experiments."
            /\ UNCHANGED points
       ELSE /\ pc' = "trials"
            /\ points' = [card \in Cards |-> 0]
            /\ UNCHANGED error
    /\ UNCHANGED <<cards, experiments, topoVars, trial, configuration, start_lab,
                   direction, current_card, step, matched_card, draws, dropped,
                   evolveVars>>

NextTrial ==
    /\ pc = "trials"
    /\ pc' = IF trial < experiments THEN "draw_color" ELSE "returned"
    /\ configuration' = NoConfiguration
    /\ start_lab' = None
    /\ direction' = "CLK_WISE"
    /\ current_card' = None
    /\ step' = 0
    /\ matched_card' = None
    /\ evolve_origin' = NoConfiguration
    /\ UNCHANGED <<cards, experiments, error, topoVars, points, trial, draws, dropped,
                   evolve_args, evolve_calls>>

DrawColor ==
    /\ pc = "draw_color"
    /\ \E k \in 1..Len(AmoebaColor) :
          configuration' = [configuration EXCEPT !.color = AmoebaColor[k]]
    /\ draws' = Append(draws, "color")
    /\ pc' = "draw_pattern"
    /\ UNCHANGED <<cards, experiments, error, topoVars, points, trial, start_lab,
                   direction, current_card, step, matched_card, dropped, evolveVars>>

DrawPattern ==
    /\ pc = "draw_pattern"
    /\ \E k \in 1..Len(Pattern) :
          configuration' = [configuration EXCEPT !.pattern = Pattern[k]]
    /\ draws' = Append(draws, "pattern")
    /\ pc' = "draw_eye"
    /\ UNCHANGED <<cards, experiments, error, topoVars, points, trial, start_lab,
                   direction, current_card, step, matched_card, dropped, evolveVars>>

DrawEye ==
    /\ pc = "draw_eye"
    /\ \E k \in 1..Len(Eye) :
          configuration' = [configuration EXCEPT !.eye = Eye[k]]
    /\ draws' = Append(draws, "eye")
    /\ pc' = "draw_lab"
    /\ UNCHANGED <<cards, experiments, error, topoVars, points, trial, start_lab,
                   direction, current_card, step, matched_card, dropped, evolveVars>>

DrawLab ==
    /\ pc = "draw_lab"
    /\ \E k \in 1..Len(lab_cards) : start_lab' = lab_cards[k]
    /\ draws' = Append(draws, "lab")
    /\ pc' = "draw_direction"
    /\ UNCHANGED <<cards, experiments, error, topoVars, points, trial, configuration,
                   direction, current_card, step, matched_card, dropped, evolveVars>>

DrawDirection ==
    /\ pc = "draw_direction"
    /\ \E k \in 1..Len(Direction) : direction' = Direction[k]
    /\ draws' = Append(draws, "direction")
    /\ current_card' = start_lab
    /\ evolve_origin' = configuration
    /\ pc' = "run"
    /\ UNCHANGED <<cards, experiments, error, topoVars, points, trial, configuration,
                   start_lab, step, matched_card, dropped, evolve_args, evolve_calls>>

RunCheck ==
    /\ pc = "run"
    /\ InRange(step)
    /\ step' = step + 1
    /\ configuration' = visit_effect(CardAt(current_card), configuration)
    /\ IF is_matched(CardAt(current_card), configuration)
       THEN /\ matched_card' = current_card
            /\ pc' = "tally"
            /\ UNCHANGED <<current_card, error>>
       ELSE IF get_next(current_card, direction) = None
       THEN /\ pc' = "raised"
            /\ error' = "Neighbors not configured"
            /\ UNCHANGED <<current_card, matched_card>>
       ELSE /\ current_card' = get_next(current_card, direction)
            /\ UNCHANGED <<pc, matched_card, error>>
    /\ UNCHANGED <<cards, experiments, topoVars, points, trial, start_lab, direction,
                   draws, dropped, evolveVars>>

RunExhausted ==
    /\ pc = "run"
    /\ ~InRange(step)
    /\ matched_card' = None
    /\ dropped' = dropped + 1
    /\ pc' = "tally"
    /\ UNCHANGED <<cards, experiments, error, topoVars, points, trial, configuration,
                   start_lab, direction, current_card, step, draws, evolveVars>>

TallyResult ==
    /\ pc = "tally"
    /\ IF Tally(matched_card)
       THEN points' = [points EXCEPT ![matched_card] = @ + 1]
       ELSE UNCHANGED points
    /\ trial' = trial + 1
    /\ pc' = "trials"
    /\ UNCHANGED <<cards, experiments, error, topoVars, configuration, start_lab,
                   direction, current_card, step, matched_card, draws, dropped,
                   evolveVars>>

SimNext ==
    \/ Simulate
    \/ NextTrial
    \/ DrawColor
    \/ DrawPattern
    \/ DrawEye
    \/ DrawLab
    \/ DrawDirection
    \/ RunCheck
    \/ RunExhausted
    \/ TallyResult

Next == TopoNext \/ SimNext

Spec == Init /\ [][Next]_vars

RingInit ==
    /\ cards \in RingLists
    /\ experiments = 0
    /\ pc = "configure"
    /\ error = ""
    /\ TopoInit
    /\ SimInit
    /\ configuration = NoConfiguration
    /\ NoEvolve

TopoSpec == RingInit /\ [][TopoNext]_vars /\ WF_vars(TopoNext)

-----------------------------------------------------------------------------
(* Configuration.evolve called repeatedly with one selection of axes *)

EvolveInit ==
    /\ cards = << >>
    /\ experiments = 0
    /\ pc = "evolve"
    /\ error = ""
    /\ TopoInit
    /\ SimInit
    /\ configuration \in Configurations
    /\ evolve_args \in EvolveArgs
    /\ evolve_origin = configuration
    /\ evolve_calls = 0

EvolveCall ==
    /\ pc = "evolve"
    /\ evolve_calls < MaxEvolveCalls
    /\ configuration' = evolve(configuration, evolve_args)
    /\ evolve_calls' = evolve_calls + 1
    /\ UNCHANGED <<cards, experiments, pc, error, topoVars, points, trial, start_lab,
                   direction, current_card, step, matched_card, draws, dropped,
                   evolve_args, evolve_origin>>

EvolveNext == EvolveCall

EvolveSpec == EvolveInit /\ [][EvolveNext]_vars

-----------------------------------------------------------------------------
(* Vocabulary of the properties *)

ConfigureDone == pc \notin {"configure", "base", "link", "walk_clk", "walk_counter", "evolve"}

VentSet == {i \in Cards : CardAt(i).kind = "Vent"}

NumVents == Cardinality(VentSet)

\* the vent at 0-based position p of the ascending list of vent indices
VentAt(p) == CHOOSE v \in VentSet : Cardinality({u \in VentSet : u < v}) = p

\* the first non-vent index met from start (inclusive) moving by sign (+1 or -1)
FirstNonVent(start, sign) ==
    LET at(k) == (start + sign * k) % NumCards
        k0 == CHOOSE k \in 0..(NumCards - 1) :
                  /\ CardAt(at(k)).kind # "Vent"
                  /\ \A j \in 0..(k - 1) : CardAt(at(j)).kind = "Vent"
    IN at(k0)

BothNeighborsSet(i) == clk_wise_neighbor[i] # None /\ counter_clk_wise_neighbor[i] # None

-----------------------------------------------------------------------------
(* C1: configure_neighbors terminates, with both neighbors of every card   *)
(* set, for every non-empty card list, all-vent lists included.  The code  *)
(* does not: with two or more vents and no other card, _walk_to_non_vent   *)
(* never leaves its loop.                                                  *)
C1_ConfigureSucceeds ==
    <>(NumCards = 0 \/ (ConfigureDone /\ \A i \in Cards : BothNeighborsSet(i)))

(* C2: with at least two vents and at least one non-vent card, once        *)
(* configure_neighbors has returned every vent at position p of the        *)
(* ascending vent list V points clockwise at the first non-vent card met   *)
(* walking clockwise from V[(p+1) mod |V|]+1 and counter-clockwise at the  *)
(* first non-vent card met walking counter-clockwise from                  *)
(* V[(p-1) mod |V|]-1; every non-vent card keeps the base wiring.          *)
C2_VentRerouting ==
    (ConfigureDone /\ NumVents >= 2 /\ NumVents < NumCards) =>
        /\ \A p \in 0..(NumVents - 1) :
              /\ clk_wise_neighbor[VentAt(p)]
                    = FirstNonVent(VentAt((p + 1) % NumVents) + 1, 1)
              /\ counter_clk_wise_neighbor[VentAt(p)]
                    = FirstNonVent(VentAt((p - 1) % NumVents) - 1, -1)
        /\ \A i \in Cards \ VentSet :
              /\ clk_wise_neighbor[i] = (i + 1) % NumCards
              /\ counter_clk_wise_neighbor[i] = (i - 1) % NumCards

\* a configured ring in which a vent's clockwise link was rerouted past another vent
\* and differs from what a walk from the vent itself would give
C2_Witness ==
    /\ ConfigureDone
    /\ NumVents >= 2
    /\ NumCards - NumVents >= 2
    /\ \E v \in VentSet :
          /\ clk_wise_neighbor[v] # FirstNonVent(v + 1, 1)
          /\ counter_clk_wise_neighbor[v] # FirstNonVent(v - 1, -1)

(* C3: in a non-empty ring with at most one vent, once configure_neighbors *)
(* has returned, the counter-clockwise neighbor of every card's clockwise  *)
(* neighbor is that card, and the clockwise neighbor of its                *)
(* counter-clockwise neighbor is that card.                                *)
C3_Symmetry ==
    (ConfigureDone /\ NumCards > 0 /\ NumVents <= 1) =>
        \A a \in Cards :
            /\ BothNeighborsSet(a)
            /\ counter_clk_wise_neighbor[clk_wise_neighbor[a]] = a
            /\ clk_wise_neighbor[counter_clk_wise_neighbor[a]] = a

\* a configured ring of three or more cards with exactly one vent
C3_Witness ==
    /\ ConfigureDone
    /\ NumCards >= 3
    /\ NumVents = 1
    /\ \A a \in Cards : counter_clk_wise_neighbor[clk_wise_neighbor[a]] = a

-----------------------------------------------------------------------------
(* Vocabulary of the properties about simulate *)

NoLabMessage == "No lab cards available to start experiments."

HasLab == \E i \in Cards : CardAt(i).kind = "Lab"

PointsMade == DOMAIN points = Cards /\ pc \in {"trials", "draw_color", "draw_pattern",
    "draw_eye", "draw_lab", "draw_direction", "run", "tally", "returned"}

\* the sum of f over the cards 0..(n - 1)
RECURSIVE SumOver(_, _)
SumOver(f, n) == IF n = 0 THEN 0 ELSE f[n - 1] + SumOver(f, n - 1)

Total(f) == SumOver(f, NumCards)

\* what holds of a traversal in every state
C4_Budget ==
    /\ step \in 0..100
    /\ error \in {"", NoLabMessage}
    /\ pc \in {"run", "tally"} => trial < experiments
    /\ (pc = "run" /\ step = 0) =>
          current_card = start_lab /\ CardAt(start_lab).kind = "Lab"
    /\ pc = "run" => ENABLED (RunCheck \/ RunExhausted)
    /\ (pc = "tally" /\ matched_card # None) =>
          /\ step \in 1..100
          /\ matched_card = current_card
          /\ CardAt(matched_card).kind = "Amoeba"
          /\ CardAt(matched_card).configuration = configuration
    /\ (pc = "tally" /\ matched_card = None) => step = 100

\* what every step taken inside the traversal loop does
C4_Progress ==
    pc = "run" => \/ pc' = "tally" /\ step' \in {step, step + 1}
                  \/ pc' = "run" /\ step' = step + 1

(* C4: one traversal makes at most 100 match checks, the first of them on  *)
(* the entry card; each step of the loop either returns or uses up one     *)
(* more check; it returns a card only if that card, one of the checked     *)
(* ones, matched, and otherwise returns None after exactly 100 checks; no  *)
(* error is raised by a traversal of a configured ring.                    *)
C4_BoundedTraversal == []C4_Budget /\ [][C4_Progress]_vars

\* a traversal of a ring with two vents that used up the 100 checks without a match
C4_Witness ==
    /\ pc = "tally"
    /\ matched_card = None
    /\ step = 100
    /\ NumVents >= 2

\* the sum of the counts against the trials done, in every state
C5_Sums ==
    PointsMade =>
        LET sum == Total(points)
        IN /\ sum <= experiments
           /\ trial <= experiments
           /\ sum + dropped = trial + (IF pc = "tally" /\ matched_card = None THEN 1 ELSE 0)
           /\ pc = "returned" =>
                 /\ trial = experiments
                 /\ (sum = experiments) <=> (dropped = 0)

\* what one step does to the sum of the counts
C5_PerTrial ==
    (PointsMade /\ DOMAIN points' = Cards) =>
        IF pc = "tally" /\ pc' = "trials"
        THEN Total(points') = Total(points) + (IF matched_card # None THEN 1 ELSE 0)
        ELSE points' = points

(* C5: with at least one Lab, the sum of the counts never exceeds the      *)
(* number of experiments; every completed trial either added exactly 1 to  *)
(* the sum (a match) or was dropped (budget exhausted), so that when       *)
(* simulate returns the sum equals the number of experiments iff no trial  *)
(* was dropped; a trial changes the sum only when its result is tallied,   *)
(* by 1 if it matched and by 0 otherwise.                                  *)
C5_CountSum == []C5_Sums /\ [][C5_PerTrial]_vars

\* simulate returned after one matched and one dropped trial: the sum is below experiments
C5_Witness ==
    /\ pc = "returned"
    /\ experiments = 2
    /\ Total(points) = 1
    /\ dropped = 1

(* C6: on a card list without a Lab card simulate raises the "no lab       *)
(* cards" error and nothing else happens: no draw, no traversal step, no   *)
(* trial, no points mapping.                                               *)
C6_NoEntryPoints ==
    (ConfigureDone /\ ~HasLab) =>
        /\ pc \in {"configured", "raised"}
        /\ pc = "raised" => error = NoLabMessage
        /\ pc = "configured" => error = ""
        /\ draws = << >>
        /\ trial = 0
        /\ step = 0
        /\ current_card = None
        /\ points = << >>

\* simulate raised on a non-empty card list that holds an Amoeba but no Lab
C6_Witness ==
    /\ pc = "raised"
    /\ error = NoLabMessage
    /\ \E i \in Cards : CardAt(i).kind = "Amoeba"

\* simulate raised on the empty card list
C6_WitnessEmpty ==
    /\ pc = "raised"
    /\ error = NoLabMessage
    /\ cards = << >>

(* C8: the count of every Lab, Vent and Evolution card is 0 in every state *)
(* in which the points mapping exists.                                     *)
C8_OnlyAmoebaCounts ==
    \A i \in DOMAIN points : CardAt(i).kind \in {"Lab", "Vent", "Evolution"} => points[i] = 0

\* simulate returned with an Amoeba counted while an Evolution card is in the ring
C8_Witness ==
    /\ pc = "returned"
    /\ \E i \in Cards : CardAt(i).kind = "Amoeba" /\ points[i] > 0
    /\ \E i \in Cards : CardAt(i).kind = "Evolution"

\* simulate returned all-zero counts on a ring of vents and labs only
C8_WitnessVentLab ==
    /\ pc = "returned"
    /\ experiments = 2
    /\ NumVents >= 1
    /\ \A i \in Cards : CardAt(i).kind \in {"Lab", "Vent"} /\ points[i] = 0

(* C9 as stated: when configure_neighbors has returned, set_neighbors was  *)
(* applied to every card exactly once.                                     *)
C9_SetExactlyOnce ==
    ConfigureDone => \A i \in Cards : setCalls[i] = 1

(* C9 as amended: both neighbors of a card are always set together; when   *)
(* configure_neighbors has returned, set_neighbors was applied exactly     *)
(* once to every non-vent card and to the vent of a one-vent ring, and     *)
(* exactly twice to every vent of a ring with two or more vents; no        *)
(* traversal step happens before that.                                     *)
C9_SetCalls ==
    /\ \A i \in Cards :
          /\ (clk_wise_neighbor[i] = None) <=> (counter_clk_wise_neighbor[i] = None)
          /\ (clk_wise_neighbor[i] = None) <=> (setCalls[i] = 0)
          /\ setCalls[i] <= (IF CardAt(i).kind = "Vent" /\ NumVents >= 2 THEN 2 ELSE 1)
    /\ ConfigureDone =>
          \A i \in Cards :
              setCalls[i] = (IF CardAt(i).kind = "Vent" /\ NumVents >= 2 THEN 2 ELSE 1)
    /\ ~ConfigureDone => step = 0 /\ current_card = None

\* a configured ring with two vents, each set twice, and a non-vent card set once
C9_Witness ==
    /\ ConfigureDone
    /\ NumVents = 2
    /\ \E i \in Cards : CardAt(i).kind = "Vent" /\ setCalls[i] = 2
    /\ \E i \in Cards : CardAt(i).kind # "Vent" /\ setCalls[i] = 1

-----------------------------------------------------------------------------
\* the other value of a two-valued axis
OtherValue(value) ==
    CASE value = "RED" -> "BLUE"
      [] value = "BLUE" -> "RED"
      [] value = "STRIPED" -> "DOTTY"
      [] value = "DOTTY" -> "STRIPED"
      [] value = "SINGLE" -> "DOUBLE"
      [] value = "DOUBLE" -> "SINGLE"

(* C10: evolve applied twice with the same axes gives back the original    *)
(* Configuration; applied once it moves exactly the selected axes to their *)
(* other value and leaves the rest alone.                                  *)
C10_EvolvePeriod ==
    pc = "evolve" =>
        /\ evolve_calls % 2 = 0 => configuration = evolve_origin
        /\ evolve_calls % 2 = 1 =>
              /\ configuration.color =
                    (IF evolve_args.evolve_color THEN OtherValue(evolve_origin.color)
                     ELSE evolve_origin.color)
              /\ configuration.pattern =
                    (IF evolve_args.evolve_pattern THEN OtherValue(evolve_origin.pattern)
                     ELSE evolve_origin.pattern)
              /\ configuration.eye =
                    (IF evolve_args.evolve_eye THEN OtherValue(evolve_origin.eye)
                     ELSE evolve_origin.eye)

\* two evolve calls on color and eye were made from a BLUE, DOTTY, DOUBLE configuration
C10_Witness ==
    /\ pc = "evolve"
    /\ evolve_calls = 2
    /\ evolve_args = [evolve_color |-> TRUE, evolve_pattern |-> FALSE, evolve_eye |-> TRUE]
    /\ evolve_origin = Configuration("BLUE", "DOTTY", "DOUBLE")
    /\ configuration = evolve_origin

-----------------------------------------------------------------------------
(* Vocabulary of the property about the walk order *)

\* the neighbor of card i in direction dir, read off the configured ring
NeighborOf(i, dir) ==
    IF dir = "CLK_WISE" THEN clk_wise_neighbor[i] ELSE counter_clk_wise_neighbor[i]

\* config with the axes selected by args moved to their other value
Rotated(config, args) ==
    [color   |-> IF args.evolve_color THEN OtherValue(config.color) ELSE config.color,
     pattern |-> IF args.evolve_pattern THEN OtherValue(config.pattern) ELSE config.pattern,
     eye     |-> IF args.evolve_eye THEN OtherValue(config.eye) ELSE config.eye]

\* the first card, among those at walk positions k..99, that is an Amoeba whose
\* target equals the traveling configuration on arrival (None if there is none),
\* with the number of cards checked up to and including it
RECURSIVE FirstMatchFrom(_, _, _)
FirstMatchFrom(k, i, config) ==
    IF k >= 100 THEN [card |-> None, checked |-> 100]
    ELSE IF CardAt(i).kind = "Amoeba" /\ CardAt(i).configuration = config
    THEN [card |-> i, checked |-> k + 1]
    ELSE FirstMatchFrom(k + 1, NeighborOf(i, direction),
                        IF CardAt(i).kind = "Evolution"
                        THEN Rotated(config, CardAt(i).evolve) ELSE config)

\* the result of a traversal, when it has returned
C11_Result ==
    pc = "tally" =>
        LET first == FirstMatchFrom(0, start_lab, evolve_origin)
        IN /\ matched_card = first.card
           /\ step = first.checked

(* C11: run_experiment returns the first card in walk order, among the at  *)
(* most 100 cards checked, that is an Amoeba whose target equals the       *)
(* traveling configuration on arrival, that configuration being the drawn  *)
(* one with the selected axes rotated once for every earlier visit to an   *)
(* Evolution card, repeated visits on later laps included (None if there   *)
(* is no such card); the cards, Amoeba targets included, never change.     *)
C11_FirstMatchInWalkOrder == []C11_Result /\ [][cards' = cards]_vars

\* a traversal that matched an Amoeba on a later lap, after an Evolution card it had
\* passed changed the traveling configuration
C11_Witness ==
    /\ pc = "tally"
    /\ matched_card # None
    /\ step > NumCards
    /\ configuration # evolve_origin
    /\ \E i \in Cards : CardAt(i).kind = "Evolution"

====
